---- MODULE Spec2Model ----
(***************************************************************************)
(* The Puter authentication guard of client/src/lib/puter-auth.ts:         *)
(* ensurePuterAuth and its popup sub-flow authenticateWithPopup.           *)
(*                                                                         *)
(* JavaScript runs every task to completion, so one action of this model   *)
(* is one run-to-completion segment of the code: from a call or a resumed  *)
(* await up to the next await that really suspends (or to the return).     *)
(* The SDK handle (window.puter), the browser's window.open, the popup     *)
(* window, the user and the clock are the environment: each of their       *)
(* answers is a choice.                                                    *)
(*                                                                         *)
(* The message formatter (formatMessageContent and formatInlineText of the *)
(* chat message component) is a pure function of a string. Strings are     *)
(* sequences of characters, and the regular expressions of the code are    *)
(* operators that scan them the way the JavaScript engine does.            *)
(***************************************************************************)
EXTENDS Integers, FiniteSets, Sequences, TLC

\* ------------------------------------------------------------------ bounds
MaxClock == 1500       \* the clock stops advancing here (ms)
MaxStart == 500        \* ensurePuterAuth is not called after this time (ms)
MaxInFlight == 2       \* getUser probes of one sub-flow awaiting an answer
MaxLines == 4          \* lines of a message given to formatMessageContent
MaxPieces == 5         \* pieces of a text given to formatInlineText

\* ------------------------------------------------------- program constants
PollIntervalMs == 500  \* setInterval(..., 500)

\* Two concurrent invocations of ensurePuterAuth.
Callers == {1, 2}

\* The clock advances by one poll interval at a time.
ClockStep == PollIntervalMs

\* timeoutMs as given by the caller: one below the poll interval, one above.
TimeoutChoices == {PollIntervalMs \div 2, 2 * PollIntervalMs}

\* The codes of PuterAuthError.
AuthErrorKinds ==
  {"NOT_AVAILABLE", "AUTH_FAILED", "POPUP_BLOCKED", "TIMEOUT", "USER_CANCELLED"}

\* What an awaited getUser() can answer: a user with a username, null, an
\* object without (or with an empty) username, or a rejection.
ProbeAnswers == {"valid", "null", "empty", "reject"}

\* What window.open can do: return null, return a handle that already
\* reports closed, return a handle to a fresh open window, return the handle
\* of the window that already carries the name 'PuterLogin', or throw.
OpenResults == {"null", "closed", "open", "existing", "throws"}

VARIABLES
  sdk,      \* window.puter: which capabilities the handle exposes
  now,      \* Date.now()
  win,      \* the popup windows: "none", "open" or "closed"
  inv,      \* one record per invocation of ensurePuterAuth
  content,  \* message.content, the string given to the formatter
  mode,     \* which formatter function has run: idle, message, inline
  rendered  \* what it returned

authVars == <<sdk, now, win, inv>>
fmtVars == <<content, mode, rendered>>
vars == <<sdk, now, win, inv, content, mode, rendered>>

\* The state of one invocation before it is called.
Idle ==
  [ pc          |-> "idle",     \* idle, awaitUser, awaitPopup, done
    popupOpt    |-> TRUE,       \* options.popup
    timeoutMs   |-> 0,          \* options.timeoutMs
    outcome     |-> "none",     \* the promise of ensurePuterAuth
    subflow     |-> "none",     \* the promise of authenticateWithPopup
    popup       |-> 0,          \* the handle window.open returned (0: none)
    timer       |-> "unset",    \* checkInterval: unset, active, cleared
    due         |-> 0,          \* while active: when its next tick is due
    startTime   |-> 0,
    pollPending |-> 0,          \* cycles awaiting getUser, popup open
    finalPending|-> 0,          \* cycles awaiting getUser, popup closed
    \* what has happened so far (read by the properties only)
    initProbe   |-> "none",     \* answer of the initial getUser
    resetCalls  |-> 0,          \* calls of resetAuthToken
    resetThrew  |-> FALSE,      \* resetAuthToken threw
    openResult  |-> "none",     \* what window.open did
    sfProbed    |-> FALSE,      \* the sub-flow has called getUser
    termCycles  |-> 0,          \* check cycles that took a terminal transition
    finalProbes |-> 0,          \* getUser calls made after seeing the popup closed
    finalAnswer |-> "none",     \* answer of that final probe
    validSeen   |-> FALSE,      \* a probe of the sub-flow answered a valid user
    pollFailed  |-> FALSE,      \* still polling after a probe answered anything else
    lateCycle   |-> FALSE ]     \* a check cycle ran with elapsed > timeoutMs

\* ----------------------------------------------------------- pure helpers

\* user && user.username
UserTruthy(a) == a \in {"valid", "empty"}
UsernameTruthy(a) == a = "valid"

IsValidUserInverted(a) == UserTruthy(a) /\ ~UsernameTruthy(a)
IsValidUserAnyObject(a) == UserTruthy(a)
IsValidUser(a) == UserTruthy(a) /\ UsernameTruthy(a)

\* !popup || popup.closed
IsBlockedNullOnly(o) == o = "null"
IsBlocked(o) == o \in {"null", "closed"}

\* Date.now() - startTime > timeoutMs
TimedOutSwapped(t, start, limit) == start - t > limit
TimedOut(t, start, limit) == t - start > limit

\* setInterval(..., 500): a tick is due one interval after time t.
NextDueImmediate(t) == t
NextDue(t) == t + PollIntervalMs

\* The catch of ensurePuterAuth around authenticateWithPopup: a
\* PuterAuthError is rethrown, anything else becomes AUTH_FAILED.
CatchPopupErrorAlwaysWraps(e) == "AUTH_FAILED"
CatchPopupError(e) == IF e \in AuthErrorKinds THEN e ELSE "AUTH_FAILED"

\* What the caller of ensurePuterAuth gets once authenticateWithPopup settled.
OuterOutcome(s) == IF s = "Resolved" THEN "resolved" ELSE CatchPopupError(s)

\* cleanup(): clearInterval(checkInterval) of this sub-flow.
\* clearInterval drops the timer's schedule with it.
cleanupShared(f, i) ==
  [j \in Callers |-> [f[j] EXCEPT !.timer = IF @ = "active" THEN "cleared" ELSE @,
                                  !.due = 0]]
cleanupForgotten(f, i) == f
cleanup(f, i) ==
  [f EXCEPT ![i].timer = IF @ = "active" THEN "cleared" ELSE @, ![i].due = 0]

\* resolve() / reject(): a promise settles once, later calls change nothing.
\* The await in ensurePuterAuth resumes in the same turn of the event loop.
settle(f, i, s) ==
  IF f[i].subflow = "Polling"
    THEN [f EXCEPT ![i].subflow = s, ![i].outcome = OuterOutcome(s), ![i].pc = "done",
                   ![i].pollFailed = FALSE]
    ELSE f

\* popup.close(), errors ignored.
closePopup(w, p) == [w EXCEPT ![p] = "closed"]

\* The windows window.open may hand out again under the name 'PuterLogin'.
NamedWindows == {p \in Callers : win[p] = "open"}

Init ==
  /\ sdk \in [puter : BOOLEAN, getUser : BOOLEAN, resetAuthToken : BOOLEAN]
  /\ now = 0
  /\ win = [p \in Callers |-> "none"]
  /\ inv = [i \in Callers |-> Idle]
  /\ content = <<>>
  /\ mode = "idle"
  /\ rendered = <<>>

\* ----------------------------------------------------- authenticateWithPopup

\* Lines 127-162: open the popup, reject if blocked, else start the timer.
\* r is the invocation's record so far, o what window.open does, p the
\* window it returns.
authenticateWithPopup(i, r, o, p) ==
  LET r1 == [r EXCEPT !.openResult = o] IN
  IF o = "throws"
    THEN /\ inv' = [inv EXCEPT ![i] = [r1 EXCEPT !.subflow = "RawError",
                                                 !.outcome = OuterOutcome("RawError"),
                                                 !.pc = "done"]]
         /\ UNCHANGED win
    ELSE
      LET h == IF o = "null" THEN 0 ELSE IF o = "existing" THEN p ELSE i
          w1 == IF o \in {"open", "closed"} THEN [win EXCEPT ![i] = o] ELSE win
          r2 == [r1 EXCEPT !.popup = h]
      IN /\ win' = w1
         /\ IF IsBlocked(o)
              THEN inv' = [inv EXCEPT ![i] = [r2 EXCEPT !.subflow = "POPUP_BLOCKED",
                                                        !.outcome = OuterOutcome("POPUP_BLOCKED"),
                                                        !.pc = "done"]]
              ELSE inv' = [inv EXCEPT ![i] = [r2 EXCEPT !.subflow = "Polling",
                                                        !.pc = "awaitPopup",
                                                        !.startTime = now,
                                                        !.timer = "active",
                                                        !.due = NextDue(now)]]

\* ----------------------------------------------------------- ensurePuterAuth

\* Lines 92-99: resetAuthToken is called in the catch block, if it exists.
HookRunsAlways(caught) == sdk.resetAuthToken
HookRuns(caught) == caught /\ sdk.resetAuthToken

\* Lines 92-121: the session is not confirmed. caught: the catch block runs
\* (getUser threw or rejected); resetThrows: resetAuthToken throws.
SessionInvalid(i, r, caught, resetThrows, o, p) ==
  LET hook == HookRuns(caught)
      r1 == IF hook THEN [r EXCEPT !.resetCalls = @ + 1] ELSE r
  IN IF hook /\ resetThrows
       THEN /\ inv' = [inv EXCEPT ![i] = [r1 EXCEPT !.outcome = "RawError",
                                                    !.resetThrew = TRUE,
                                                    !.pc = "done"]]
            /\ UNCHANGED win
       ELSE IF ~r1.popupOpt
         THEN /\ inv' = [inv EXCEPT ![i] = [r1 EXCEPT !.outcome = "AUTH_FAILED", !.pc = "done"]]
              /\ UNCHANGED win
         ELSE authenticateWithPopup(i, r1, o, p)

\* The choices the environment makes when the flow reaches window.open.
OpenChoice(i, o, p) ==
  /\ o \in OpenResults
  /\ IF o = "existing" THEN p \in NamedWindows \ {i} ELSE p = i

\* Lines 69-87: the call, up to the first await that suspends.
EnsurePuterAuth(i) ==
  /\ inv[i].pc = "idle"
  /\ now <= MaxStart
  /\ \E popupOpt \in BOOLEAN, t \in TimeoutChoices :
       LET r == [inv[i] EXCEPT !.popupOpt = popupOpt, !.timeoutMs = t,
                               !.outcome = "pending"]
       IN IF ~sdk.puter
            THEN /\ inv' = [inv EXCEPT ![i] = [r EXCEPT !.outcome = "NOT_AVAILABLE",
                                                        !.pc = "done"]]
                 /\ UNCHANGED win
            ELSE IF sdk.getUser
              THEN \/ /\ inv' = [inv EXCEPT ![i] = [r EXCEPT !.pc = "awaitUser"]]
                      /\ UNCHANGED win
                   \/ \E resetThrows \in BOOLEAN, o \in OpenResults, p \in Callers :
                        /\ OpenChoice(i, o, p)
                        /\ SessionInvalid(i, [r EXCEPT !.initProbe = "throw"],
                                          TRUE, resetThrows, o, p)
              ELSE \E o \in OpenResults, p \in Callers :
                     /\ OpenChoice(i, o, p)
                     /\ SessionInvalid(i, r, FALSE, FALSE, o, p)
  /\ UNCHANGED <<sdk, now, fmtVars>>

\* Lines 87-121: the initial getUser() answers.
InitialProbeDone(i) ==
  /\ inv[i].pc = "awaitUser"
  /\ \E a \in ProbeAnswers :
       LET r == [inv[i] EXCEPT !.initProbe = a] IN
       IF a # "reject" /\ IsValidUser(a)
         THEN /\ inv' = [inv EXCEPT ![i] = [r EXCEPT !.outcome = "resolved", !.pc = "done"]]
              /\ UNCHANGED win
         ELSE \E resetThrows \in BOOLEAN, o \in OpenResults, p \in Callers :
                /\ OpenChoice(i, o, p)
                /\ SessionInvalid(i, r, a = "reject", resetThrows, o, p)
  /\ UNCHANGED <<sdk, now, fmtVars>>

\* ------------------------------------------------------ the polling timer

\* Lines 162-220: one tick of setInterval, up to its await (or its return).
Tick(i) ==
  /\ inv[i].timer = "active"
  /\ now >= inv[i].due
  /\ LET r == inv[i]
         late == now - r.startTime > r.timeoutMs
         f0 == [inv EXCEPT ![i].due = NextDue(now),
                           ![i].lateCycle = @ \/ late]
     IN IF TimedOut(now, r.startTime, r.timeoutMs)
          THEN \* lines 164-176
               /\ inv' = settle([cleanup(f0, i) EXCEPT ![i].termCycles = @ + 1],
                                i, "TIMEOUT")
               /\ win' = closePopup(win, r.popup)
          ELSE IF win[r.popup] = "closed"
            THEN \* lines 179-200
                 /\ UNCHANGED win
                 /\ LET f1 == [cleanup(f0, i) EXCEPT ![i].termCycles = @ + 1] IN
                    IF sdk.puter /\ sdk.getUser
                      THEN LET f2 == [f1 EXCEPT ![i].sfProbed = TRUE,
                                                ![i].finalProbes = @ + 1]
                           IN \/ inv' = [f2 EXCEPT ![i].finalPending = @ + 1]
                              \/ inv' = settle([f2 EXCEPT ![i].finalAnswer = "throw"],
                                               i, "USER_CANCELLED")
                      ELSE inv' = settle(f1, i, "USER_CANCELLED")
            ELSE \* lines 203-219
                 /\ UNCHANGED win
                 /\ IF sdk.puter /\ sdk.getUser
                      THEN /\ r.pollPending < MaxInFlight
                           /\ \/ inv' = [f0 EXCEPT ![i].sfProbed = TRUE,
                                                   ![i].pollPending = @ + 1]
                              \/ inv' = [f0 EXCEPT ![i].sfProbed = TRUE]
                      ELSE inv' = f0
  /\ UNCHANGED <<sdk, now, fmtVars>>

\* Lines 205-215: the getUser() of a cycle that saw the popup open answers.
PollProbeDone(i) ==
  /\ inv[i].pollPending > 0
  /\ \E a \in ProbeAnswers :
       LET f0 == [inv EXCEPT ![i].pollPending = @ - 1,
                             ![i].validSeen = @ \/ a = "valid",
                             ![i].pollFailed =
                               @ \/ (a # "valid" /\ inv[i].subflow = "Polling")] IN
       IF a # "reject" /\ IsValidUser(a)
         THEN /\ inv' = settle([cleanup(f0, i) EXCEPT ![i].termCycles = @ + 1],
                               i, "Resolved")
              /\ win' = closePopup(win, inv[i].popup)
         ELSE /\ inv' = f0
              /\ UNCHANGED win
  /\ UNCHANGED <<sdk, now, fmtVars>>

\* Lines 185-199: the getUser() of the cycle that saw the popup closed answers.
FinalProbeDone(i) ==
  /\ inv[i].finalPending > 0
  /\ \E a \in ProbeAnswers :
       LET f0 == [inv EXCEPT ![i].finalPending = @ - 1, ![i].finalAnswer = a,
                             ![i].validSeen = @ \/ a = "valid"] IN
       IF a # "reject" /\ IsValidUser(a)
         THEN inv' = settle(f0, i, "Resolved")
         ELSE inv' = settle(f0, i, "USER_CANCELLED")
  /\ UNCHANGED <<sdk, now, win, fmtVars>>

\* ------------------------------------------------------------ environment

\* The user closes the popup, or the login page closes itself.
PopupCloses(p) ==
  /\ win[p] = "open"
  /\ win' = [win EXCEPT ![p] = "closed"]
  /\ UNCHANGED <<sdk, now, inv, fmtVars>>

\* Time passes.
ClockAdvances ==
  /\ now < MaxClock
  /\ now' = now + ClockStep
  /\ UNCHANGED <<sdk, win, inv, fmtVars>>

Next ==
  \/ \E i \in Callers : EnsurePuterAuth(i)
  \/ \E i \in Callers : InitialProbeDone(i)
  \/ \E i \in Callers : Tick(i)
  \/ \E i \in Callers : PollProbeDone(i)
  \/ \E i \in Callers : FinalProbeDone(i)
  \/ \E p \in Callers : PopupCloses(p)
  \/ ClockAdvances

Spec == Init /\ [][Next]_vars

\* ===================================================== the message formatter

\* Characters are one-character strings; two are written by their code
\* points: U+2022, the bullet character of the list patterns, and U+0060,
\* the backtick.
Bullet == "U+2022"
Backtick == "U+0060"
Digits == {"0", "1", "2", "3", "4", "5", "6", "7", "8", "9"}

\* The white space class of the regular expressions; what trim() strips.
IsWhitespace(c) == c \in {" ", "\n", "\t"}

Min(S) == CHOOSE x \in S : \A y \in S : x <= y
Max(S) == CHOOSE x \in S : \A y \in S : x >= y

\* The literal lit occurs in s at position i.
MatchesAt(s, i, lit) ==
  /\ i >= 1
  /\ i + Len(lit) - 1 <= Len(s)
  /\ SubSeq(s, i, i + Len(lit) - 1) = lit

\* String.prototype.includes
Includes(s, lit) == \E i \in 1 .. Len(s) : MatchesAt(s, i, lit)

\* String.prototype.trim
RECURSIVE TrimStart(_)
TrimStart(s) ==
  IF s # <<>> /\ IsWhitespace(Head(s)) THEN TrimStart(Tail(s)) ELSE s

RECURSIVE TrimEnd(_)
TrimEnd(s) ==
  IF s # <<>> /\ IsWhitespace(s[Len(s)])
    THEN TrimEnd(SubSeq(s, 1, Len(s) - 1))
    ELSE s

Trim(s) == TrimEnd(TrimStart(s))

\* String.prototype.split with a string separator.
RECURSIVE SplitLit(_, _)
SplitLit(s, lit) ==
  IF ~Includes(s, lit)
    THEN <<s>>
    ELSE LET i == Min({k \in 1 .. Len(s) : MatchesAt(s, k, lit)})
         IN <<SubSeq(s, 1, i - 1)>> \o SplitLit(SubSeq(s, i + Len(lit), Len(s)), lit)

\* Array.prototype.join
RECURSIVE Join(_, _)
Join(parts, sep) ==
  IF parts = <<>> THEN <<>>
  ELSE IF Len(parts) = 1 THEN parts[1]
  ELSE parts[1] \o sep \o Join(Tail(parts), sep)

\* Where the match of the paragraph separator (a newline, any white space,
\* a newline) that starts at i ends, 0 when there is none. The white space
\* is matched greedily, so the match runs to the last newline of the run.
ParagraphBreakEnd(s, i) ==
  IF s[i] # "\n" THEN 0
  ELSE LET ends == {j \in i + 1 .. Len(s) :
                      s[j] = "\n" /\ \A k \in i + 1 .. j - 1 : IsWhitespace(s[k])}
       IN IF ends = {} THEN 0 ELSE Max(ends)

\* Line 14: content.split on the paragraph separator.
RECURSIVE SplitParagraphs(_)
SplitParagraphs(s) ==
  LET starts == {i \in 1 .. Len(s) : ParagraphBreakEnd(s, i) # 0} IN
  IF starts = {} THEN <<s>>
  ELSE LET i == Min(starts)
           j == ParagraphBreakEnd(s, i)
       IN <<SubSeq(s, 1, i - 1)>> \o SplitParagraphs(SubSeq(s, j + 1, Len(s)))

\* ---------------------------------------------------------- formatInlineText

\* Line 147, the bold rule: two stars, the shortest run of characters other
\* than a newline, two stars; replaced by the run between strong tags.
RECURSIVE ReplaceBold(_)
ReplaceBold(s) ==
  IF s = <<>> THEN <<>>
  ELSE LET close == {j \in 3 .. Len(s) - 1 :
                       /\ s[j] = "*" /\ s[j + 1] = "*"
                       /\ \A k \in 3 .. j - 1 : s[k] # "\n"}
       IN IF Len(s) >= 4 /\ s[1] = "*" /\ s[2] = "*" /\ close # {}
            THEN LET j == Min(close)
                 IN <<"<strong>">> \o SubSeq(s, 3, j - 1) \o <<"</strong>">>
                      \o ReplaceBold(SubSeq(s, j + 2, Len(s)))
            ELSE <<Head(s)>> \o ReplaceBold(Tail(s))

\* Line 150, the italic rule: a star, the shortest run of characters other
\* than a newline, a star; replaced by the run between em tags.
RECURSIVE ReplaceItalic(_)
ReplaceItalic(s) ==
  IF s = <<>> THEN <<>>
  ELSE LET close == {j \in 2 .. Len(s) :
                       s[j] = "*" /\ \A k \in 2 .. j - 1 : s[k] # "\n"}
       IN IF s[1] = "*" /\ close # {}
            THEN LET j == Min(close)
                 IN <<"<em>">> \o SubSeq(s, 2, j - 1) \o <<"</em>">>
                      \o ReplaceItalic(SubSeq(s, j + 1, Len(s)))
            ELSE <<Head(s)>> \o ReplaceItalic(Tail(s))

\* Line 153, the inline code rule: a backtick, one or more characters other
\* than a backtick, a backtick; replaced by the run between code tags.
RECURSIVE ReplaceCode(_)
ReplaceCode(s) ==
  IF s = <<>> THEN <<>>
  ELSE LET ticks == {j \in 2 .. Len(s) : s[j] = Backtick}
       IN IF s[1] = Backtick /\ ticks # {} /\ Min(ticks \cup {Len(s) + 1}) >= 3
            THEN LET j == Min(ticks)
                 IN <<"<code>">> \o SubSeq(s, 2, j - 1) \o <<"</code>">>
                      \o ReplaceCode(SubSeq(s, j + 1, Len(s)))
            ELSE <<Head(s)>> \o ReplaceCode(Tail(s))

\* Line 156, the link rule: a bracketed text of one or more characters
\* directly followed by a parenthesised url of one or more characters;
\* replaced by an anchor with the url as href and the text as content.
RECURSIVE ReplaceLink(_)
ReplaceLink(s) ==
  IF s = <<>> THEN <<>>
  ELSE LET rb == {k \in 2 .. Len(s) : s[k] = "]"}
           k == Min(rb \cup {Len(s) + 1})
           rp == {m \in k + 2 .. Len(s) : s[m] = ")"}
           m == Min(rp \cup {Len(s) + 1})
       IN IF /\ s[1] = "[" /\ k >= 3 /\ k + 1 <= Len(s) /\ s[k + 1] = "("
             /\ m <= Len(s) /\ m >= k + 3
            THEN <<"<a href=">> \o SubSeq(s, k + 2, m - 1) \o <<"<a attrs>">>
                   \o SubSeq(s, 2, k - 1) \o <<"</a>">>
                   \o ReplaceLink(SubSeq(s, m + 1, Len(s)))
            ELSE <<Head(s)>> \o ReplaceLink(Tail(s))

\* Lines 145-159: the four replacements, each on the previous one's result.
formatInlineText(text) ==
  ReplaceLink(ReplaceCode(ReplaceItalic(ReplaceBold(text))))

\* ------------------------------------------------------ formatMessageContent

\* One rendered element: <p>, <ul>, <ol> or the code block's <pre>.
Element(tag, text, items, labels, lang) ==
  [tag |-> tag, text |-> text, items |-> items, labels |-> labels, lang |-> lang]

\* <p>{formatInlineText(text)}</p>
Paragraph(text) == Element("p", formatInlineText(text), <<>>, <<>>, <<>>)

\* Line 26: the trimmed line starts with a marker and a white space.
IsBulletLine(t) ==
  Len(t) >= 2 /\ t[1] \in {"-", "*", Bullet} /\ IsWhitespace(t[2])

\* Line 27: the marker and the white space removed.
StripBullet(t) == SubSeq(t, 3, Len(t))

\* Line 61: how many characters the pattern digits, dot, white space takes
\* at the start of t (0: no match).
NumberPrefix(t) ==
  LET n == Min({k \in 1 .. Len(t) : t[k] \notin Digits} \cup {Len(t) + 1}) - 1
  IN IF n >= 1 /\ n + 2 <= Len(t) /\ t[n + 1] = "." /\ IsWhitespace(t[n + 2])
       THEN n + 2
       ELSE 0

\* Line 61: the trimmed line starts with digits, a dot and a white space.
IsNumberLine(t) == NumberPrefix(t) # 0

\* Line 62: that prefix removed.
StripNumber(t) == SubSeq(t, NumberPrefix(t) + 1, Len(t))

\* Line 55: the chunk holds a newline directly followed by digits and a dot.
HasNumberedLine(s) ==
  \E i \in 1 .. Len(s) :
    /\ s[i] = "\n"
    /\ \E n \in 1 .. Len(s) :
         /\ i + n + 1 <= Len(s)
         /\ \A k \in i + 1 .. i + n : s[k] \in Digits
         /\ s[i + n + 1] = "."

\* Line 20: the chunk includes a newline directly followed by a marker and
\* a space.
HasBulletLine(s) ==
  \/ Includes(s, <<"\n", "-", " ">>)
  \/ Includes(s, <<"\n", "*", " ">>)
  \/ Includes(s, <<"\n", Bullet, " ">>)

\* The trimmed lines of a chunk: the chunk split on newlines, each trimmed.
TrimmedLines(paragraph) ==
  LET lines == SplitLit(paragraph, <<"\n">>)
  IN [k \in 1 .. Len(lines) |-> Trim(lines[k])]

\* The number the <ol> shows before its item: {itemIndex + 1}.
DigitValue(c) == CHOOSE v \in 0 .. 9 : <<"0", "1", "2", "3", "4", "5", "6", "7", "8", "9">>[v + 1] = c
RECURSIVE NumberOf(_)
NumberOf(ds) ==
  IF ds = <<>> THEN 0 ELSE 10 * NumberOf(SubSeq(ds, 1, Len(ds) - 1)) + DigitValue(ds[Len(ds)])
OlLabelFromSource(itemIndex, line) == NumberOf(SubSeq(line, 1, NumberPrefix(line) - 2))
OlLabel(itemIndex, line) == itemIndex + 1

\* Lines 20-52: the chunk as a bulleted list.
RenderBulleted(paragraph) ==
  LET ts == TrimmedLines(paragraph)
      itemLines == SelectSeq(ts, IsBulletLine)
      nonListLines == SelectSeq(ts, LAMBDA t : ~IsBulletLine(t) /\ t # <<>>)
      listItems == [k \in 1 .. Len(itemLines) |-> formatInlineText(StripBullet(itemLines[k]))]
  IN (IF nonListLines # <<>> THEN <<Paragraph(Join(nonListLines, <<" ">>))>> ELSE <<>>)
       \o (IF listItems # <<>> THEN <<Element("ul", <<>>, listItems, <<>>, <<>>)>> ELSE <<>>)

\* Lines 55-89: the chunk as a numbered list.
RenderNumbered(paragraph) ==
  LET ts == TrimmedLines(paragraph)
      itemLines == SelectSeq(ts, IsNumberLine)
      nonListLines == SelectSeq(ts, LAMBDA t : ~IsNumberLine(t) /\ t # <<>>)
      listItems == [k \in 1 .. Len(itemLines) |-> formatInlineText(StripNumber(itemLines[k]))]
      labels == [k \in 1 .. Len(itemLines) |-> OlLabel(k - 1, itemLines[k])]
  IN (IF nonListLines # <<>> THEN <<Paragraph(Join(nonListLines, <<" ">>))>> ELSE <<>>)
       \o (IF listItems # <<>> THEN <<Element("ol", <<>>, listItems, labels, <<>>)>> ELSE <<>>)

\* Line 101: the lines after the language line (all lines when there is no
\* language), joined by newlines.
CodeBodyKeepsTagLine(lines, language) == Join(lines, <<"\n">>)
CodeBody(lines, language) ==
  Join(SubSeq(lines, IF language # <<>> THEN 2 ELSE 1, Len(lines)), <<"\n">>)

\* Lines 97-122: one part of a chunk split on the fence.
RenderPart(part, partIndex) ==
  IF partIndex % 2 = 1
    THEN LET lines == SplitLit(part, <<"\n">>)
             language == Trim(lines[1])
         IN <<Element("pre", CodeBody(lines, language), <<>>, <<>>, language)>>
    ELSE IF Trim(part) # <<>> THEN <<Paragraph(Trim(part))>> ELSE <<>>

RECURSIVE RenderParts(_, _)
RenderParts(parts, partIndex) ==
  IF parts = <<>> THEN <<>>
  ELSE RenderPart(Head(parts), partIndex) \o RenderParts(Tail(parts), partIndex + 1)

Fence == <<Backtick, Backtick, Backtick>>

\* Lines 92-127: the chunk as text and code blocks.
RenderCode(paragraph) == RenderParts(SplitLit(paragraph, Fence), 0)

\* Lines 18-139: what one chunk renders as; kind "null" renders nothing.
Chunk(kind, children) == [kind |-> kind, children |-> children]
RenderChunk(paragraph) ==
  IF HasBulletLine(paragraph) THEN Chunk("bulleted", RenderBulleted(paragraph))
  ELSE IF HasNumberedLine(paragraph) THEN Chunk("numbered", RenderNumbered(paragraph))
  ELSE IF Includes(paragraph, Fence) THEN Chunk("code", RenderCode(paragraph))
  ELSE IF Trim(paragraph) # <<>> THEN Chunk("paragraph", <<Paragraph(Trim(paragraph))>>)
  ELSE Chunk("null", <<>>)

\* Lines 12-142: the chunks that render something, in order.
formatMessageContent(c) ==
  LET paragraphs == SplitParagraphs(c)
      chunks == [k \in 1 .. Len(paragraphs) |-> RenderChunk(paragraphs[k])]
  IN SelectSeq(chunks, LAMBDA ch : ch.kind # "null")


\* ------------------------------------------- the formatter's specifications

SeqsUpTo(S, n) == UNION {[1 .. k -> S] : k \in 0 .. n}

\* The lines messages are made of: bullet lines with each marker, numbered
\* lines whose numbers skip and repeat, plain text, a blank line, and the
\* fences of a code block with and without a language.
FmtLines ==
  { <<"-", " ", "a">>, <<"*", " ", "b">>, <<Bullet, " ", "e">>,
    <<"1", ".", " ", "x">>, <<"3", ".", " ", "y">>,
    <<"t">>, <<>>,
    Fence \o <<"j", "s">>, Fence }

\* message.content: up to MaxLines lines joined by newlines.
FmtInputs == {Join(ls, <<"\n">>) : ls \in SeqsUpTo(FmtLines, MaxLines)}

\* The pieces inline texts are made of.
InlinePieces ==
  { <<"a">>, <<" ">>, <<"*">>, <<Backtick>>, <<"[", "a", "]", "(", "b", ")">> }

\* The text given to formatInlineText: up to MaxPieces pieces.
InlineInputs == {Join(ps, <<>>) : ps \in SeqsUpTo(InlinePieces, MaxPieces)}

\* The guard is not running while the formatter is looked at.
AuthIdle ==
  /\ sdk = [puter |-> FALSE, getUser |-> FALSE, resetAuthToken |-> FALSE]
  /\ now = 0
  /\ win = [p \in Callers |-> "none"]
  /\ inv = [i \in Callers |-> Idle]

FmtInit ==
  /\ AuthIdle
  /\ content \in FmtInputs
  /\ mode = "idle"
  /\ rendered = <<>>

\* Line 201: formatMessageContent(message.content).
RenderMessage ==
  /\ mode = "idle"
  /\ mode' = "message"
  /\ rendered' = formatMessageContent(content)
  /\ UNCHANGED <<authVars, content>>

FmtNext == RenderMessage

FmtSpec == FmtInit /\ [][FmtNext]_vars

InlineInit ==
  /\ AuthIdle
  /\ content \in InlineInputs
  /\ mode = "idle"
  /\ rendered = <<>>

\* Lines 37, 45, 72, 82, 119, 133: formatInlineText(text).
RenderInline ==
  /\ mode = "idle"
  /\ mode' = "inline"
  /\ rendered' = formatInlineText(content)
  /\ UNCHANGED <<authVars, content>>

InlineNext == RenderInline

InlineSpec == InlineInit /\ [][InlineNext]_vars

\* ---------------------------------------------------------------- claims

\* C1: every invocation of ensurePuterAuth that does not resolve rejects
\* with a PuterAuthError: whatever getUser, resetAuthToken and the popup do,
\* the outcome the caller sees is pending, resolved, or one of the five
\* error codes, never any other error.
C1_OnlyAuthErrors ==
  \A i \in Callers :
    inv[i].outcome \in {"none", "pending", "resolved"} \cup AuthErrorKinds

\* C2: when the initial getUser answers a user with a non-empty username,
\* ensurePuterAuth resolves, and it has opened no popup, started no timer
\* and not called resetAuthToken.
C2_ValidSessionNoSideEffects ==
  \A i \in Callers :
    inv[i].initProbe = "valid" =>
      /\ inv[i].outcome = "resolved"
      /\ inv[i].openResult = "none"
      /\ inv[i].popup = 0
      /\ inv[i].subflow = "none"
      /\ inv[i].timer = "unset"
      /\ inv[i].resetCalls = 0

C2_Witness ==
  \E i \in Callers :
    /\ inv[i].initProbe = "valid"
    /\ inv[i].outcome = "resolved"
    /\ sdk.resetAuthToken

\* C3: when the initial getUser rejects, throws, or answers a null or empty
\* identity, and options.popup is false, ensurePuterAuth rejects with
\* AUTH_FAILED and no popup is opened.
C3_InvalidNoPopupAuthFailed ==
  \A i \in Callers :
    (inv[i].initProbe \notin {"none", "valid"} /\ ~inv[i].popupOpt) =>
      /\ inv[i].outcome = "AUTH_FAILED"
      /\ inv[i].openResult = "none"

\* C4: in one popup sub-flow at most one check cycle takes a terminal
\* transition (stop polling, close the popup, resolve, reject).
C4_OneTerminalCycle ==
  \A i \in Callers : inv[i].termCycles <= 1

\* C5: whenever the popup sub-flow is Resolved, or Rejected with TIMEOUT or
\* USER_CANCELLED, its polling timer is cleared and its popup window is
\* closed.
C5_ResourcesReleased ==
  \A i \in Callers :
    inv[i].subflow \in {"Resolved", "TIMEOUT", "USER_CANCELLED"} =>
      /\ inv[i].timer = "cleared"
      /\ inv[i].popup # 0
      /\ win[inv[i].popup] = "closed"

C5_Witness ==
  \E i \in Callers : \E j \in Callers \ {i} :
    /\ inv[i].subflow = "Resolved"
    /\ inv[j].subflow \in {"TIMEOUT", "USER_CANCELLED"}
    /\ inv[i].popup # inv[j].popup

\* C6: once a check cycle has run with more than timeoutMs elapsed and no
\* probe of the sub-flow has answered a valid user, the sub-flow is Rejected
\* with TIMEOUT, the caller gets TIMEOUT, and the popup is closed.
C6_TimeoutRejects ==
  \A i \in Callers :
    (inv[i].lateCycle /\ ~inv[i].validSeen) =>
      /\ inv[i].subflow = "TIMEOUT"
      /\ inv[i].outcome = "TIMEOUT"
      /\ win[inv[i].popup] = "closed"
      /\ inv[i].timer = "cleared"

\* A sub-flow that polled, unauthenticated, before it timed out.
C6_Witness ==
  \E i \in Callers :
    /\ inv[i].lateCycle
    /\ ~inv[i].validSeen
    /\ inv[i].sfProbed
    /\ inv[i].timeoutMs > PollIntervalMs
    /\ inv[i].subflow = "TIMEOUT"

\* C7: once the final probe made after a check cycle saw the popup closed
\* has answered, polling has stopped, that probe was the only final probe,
\* and the sub-flow is Resolved if it answered a valid user and Rejected
\* with USER_CANCELLED if it did not.
C7_ClosedPopupFinalProbe ==
  \A i \in Callers :
    inv[i].finalAnswer # "none" =>
      /\ inv[i].timer = "cleared"
      /\ inv[i].finalProbes = 1
      /\ IF inv[i].finalAnswer = "valid"
           THEN inv[i].subflow = "Resolved"
           ELSE inv[i].subflow = "USER_CANCELLED"

\* C8: when window.open returns null or a handle that already reports
\* closed, the sub-flow is Rejected with POPUP_BLOCKED, no timer was ever
\* started and the sub-flow made no session probe.
C8_PopupBlocked ==
  \A i \in Callers :
    inv[i].openResult \in {"null", "closed"} =>
      /\ inv[i].subflow = "POPUP_BLOCKED"
      /\ inv[i].outcome = "POPUP_BLOCKED"
      /\ inv[i].timer = "unset"
      /\ ~inv[i].sfProbed
      /\ inv[i].pollPending = 0
      /\ inv[i].finalPending = 0

C8_Witness ==
  \E i \in Callers : \E j \in Callers \ {i} :
    /\ inv[i].openResult = "null"
    /\ inv[j].openResult = "closed"
    /\ inv[i].outcome = "POPUP_BLOCKED"
    /\ inv[j].outcome = "POPUP_BLOCKED"

\* C9: a PuterAuthError raised by the popup sub-flow reaches the caller of
\* ensurePuterAuth with its code unchanged; any other error raised by the
\* sub-flow reaches the caller as AUTH_FAILED.
C9_ErrorPropagation ==
  \A i \in Callers :
    /\ inv[i].subflow \in AuthErrorKinds => inv[i].outcome = inv[i].subflow
    /\ inv[i].subflow = "RawError" => inv[i].outcome = "AUTH_FAILED"

C9_Witness ==
  \E i \in Callers : \E j \in Callers \ {i} :
    /\ inv[i].subflow = "RawError"
    /\ inv[i].outcome = "AUTH_FAILED"
    /\ inv[j].subflow = "TIMEOUT"
    /\ inv[j].outcome = "TIMEOUT"

SingleChunk == Len(SplitParagraphs(content)) = 1

\* C11: every chunk that contains a line starting with a bullet marker and
\* a space, its first line included, is rendered as a bulleted list whose
\* items are exactly those lines in order with the marker stripped,
\* preceded by one leading paragraph only if the chunk has other non-blank
\* lines.
C11_BulletedChunks ==
  LET ts == TrimmedLines(content)
      bullets == SelectSeq(ts, IsBulletLine)
      others == SelectSeq(ts, LAMBDA t : ~IsBulletLine(t) /\ t # <<>>)
      list == Element("ul", <<>>,
                      [k \in 1 .. Len(bullets) |-> StripBullet(bullets[k])],
                      <<>>, <<>>)
  IN (mode = "message" /\ SingleChunk /\ bullets # <<>>) =>
       /\ Len(rendered) = 1
       /\ rendered[1].kind = "bulleted"
       /\ LET cs == rendered[1].children
          IN IF others = <<>>
               THEN cs = <<list>>
               ELSE Len(cs) = 2 /\ cs[1].tag = "p" /\ cs[2] = list

\* C12: every numbered list of n items is rendered with the labels 1 .. n
\* in source order, whatever numbers the source lines carry.
C12_NumberedLabels ==
  mode = "message" =>
    \A k \in 1 .. Len(rendered) :
      \A c \in 1 .. Len(rendered[k].children) :
        LET e == rendered[k].children[c] IN
        e.tag = "ol" => e.labels = [j \in 1 .. Len(e.items) |-> j]

\* The source numbers 3, 3, 1 are rendered as 1, 2, 3.
C12_Witness ==
  /\ mode = "message"
  /\ content = Join(<< <<"3", ".", " ", "y">>, <<"3", ".", " ", "y">>,
                       <<"1", ".", " ", "x">> >>, <<"\n">>)
  /\ Len(rendered) = 1
  /\ rendered[1].kind = "numbered"
  /\ rendered[1].children[1].labels = <<1, 2, 3>>

\* The texts, languages and bodies of the fenced chunks looked at.
FmtTexts == FmtLines \ {<<>>, Fence, Fence \o <<"j", "s">>}
FmtLangs == {<<>>, <<"j", "s">>}

\* The chunk: text, newline, fence and language, newline, body, newline, fence.
FencedForm(T, L, B) ==
  T \o <<"\n">> \o Fence \o L \o <<"\n">> \o B \o <<"\n">> \o Fence

Spans(s, open, close) ==
  { SubSeq(s, p[1], p[2]) :
      p \in { q \in (1 .. Len(s)) \X (1 .. Len(s)) :
                /\ q[1] < q[2]
                /\ s[q[1]] = open
                /\ s[q[2]] = close
                /\ \A k \in q[1] + 1 .. q[2] - 1 : s[k] # close } }

\* C14: the rules apply in the order bold, italic, inline code, link, and a
\* span converted by one rule is not reprocessed by a later rule: each span
\* a rule has made, its markup and its content, is found as it was made in
\* the final text.
C14_NoReprocessing ==
  mode = "inline" =>
    LET bold == ReplaceBold(content)
        italic == ReplaceItalic(bold)
        code == ReplaceCode(italic)
    IN /\ rendered = ReplaceLink(code)
       /\ \A sp \in Spans(bold, "<strong>", "</strong>") : Includes(rendered, sp)
       /\ \A sp \in Spans(italic, "<em>", "</em>") : Includes(rendered, sp)
       /\ \A sp \in Spans(code, "<code>", "</code>") : Includes(rendered, sp)

\* C15: the polling loop is not re-entered: a check cycle runs to its end,
\* its awaited getUser included, before the next tick fires, so at most one
\* check cycle of a sub-flow is in progress in any reachable state.
C15_NoReentrancy ==
  \A i \in Callers : inv[i].pollPending + inv[i].finalPending <= 1

\* C16: whenever the initial getUser fails in any of the three ways (it
\* rejects, it throws, or it resolves with an absent or empty identity) and
\* the handle exposes resetAuthToken, resetAuthToken has been called exactly
\* once when the flow is at the popup-enabled check.
C16_HookOnEveryFailure ==
  \A i \in Callers :
    (inv[i].initProbe \in {"reject", "throw", "null", "empty"}
       /\ sdk.resetAuthToken) =>
      inv[i].resetCalls = 1

\* C16, amended: when the initial getUser rejects or throws and the handle
\* exposes resetAuthToken, resetAuthToken has been called exactly once when
\* the flow is at the popup-enabled check; when getUser resolves with an
\* absent or empty identity, resetAuthToken is not called.
C16_HookOnRejectOrThrow ==
  \A i \in Callers :
    /\ (inv[i].initProbe \in {"reject", "throw"} /\ sdk.resetAuthToken) =>
         inv[i].resetCalls = 1
    /\ inv[i].initProbe \in {"null", "empty"} => inv[i].resetCalls = 0
    /\ inv[i].resetCalls = 0 /\ inv[i].initProbe \in {"reject", "throw"} =>
         ~sdk.resetAuthToken

\* One invocation's getUser rejected, the hook ran once and the flow went on
\* to window.open; the other's getUser answered null, the hook did not run,
\* and the flow went on to window.open as well.
C16_Witness ==
  \E i, j \in Callers :
    /\ sdk.resetAuthToken
    /\ inv[i].initProbe = "reject"
    /\ inv[i].resetCalls = 1
    /\ inv[i].openResult # "none"
    /\ inv[j].initProbe = "null"
    /\ inv[j].resetCalls = 0
    /\ inv[j].openResult # "none"

\* C17: a failure of resetAuthToken is ignored: when it throws, the flow
\* goes on as if it had returned (AUTH_FAILED when popups are disabled,
\* window.open otherwise), and its error never reaches the caller.
C17_HookFailureIgnored ==
  \A i \in Callers :
    inv[i].resetThrew =>
      /\ inv[i].outcome # "RawError"
      /\ ~inv[i].popupOpt => inv[i].outcome = "AUTH_FAILED"
      /\ inv[i].popupOpt => inv[i].openResult # "none"

\* C18: while the sub-flow is polling, the answer of a probe made with the
\* popup open that is no valid identity (a rejection, null, an object with
\* no username) changes nothing: the sub-flow stays polling, its timer, the
\* popup and what the caller sees stay as they are; and only a probe that
\* answers a user with a username makes the sub-flow Resolved.
C18_FailedProbeChangesNothing ==
  /\ [](\A i \in Callers : inv[i].subflow = "Resolved" => inv[i].validSeen)
  /\ [][\A i \in Callers :
          (inv[i].subflow = "Polling" /\ inv'[i].pollPending < inv[i].pollPending) =>
            IF inv'[i].validSeen
              THEN inv'[i].subflow = "Resolved"
              ELSE /\ inv'[i] = [inv[i] EXCEPT !.pollPending = @ - 1,
                                               !.pollFailed = TRUE]
                   /\ win' = win]_vars

\* A probe has answered without an identity; the sub-flow is still polling
\* with its timer active, the popup open and the caller's promise pending.
C18_Witness ==
  \E i \in Callers :
    /\ inv[i].pollFailed
    /\ inv[i].subflow = "Polling"
    /\ inv[i].timer = "active"
    /\ win[inv[i].popup] = "open"
    /\ inv[i].outcome = "pending"

\* C19: the timeout bounds the sub-flow, whatever the popup and the SDK do,
\* a getUser that never answers included: a sub-flow is settled once a
\* check cycle has run with elapsed time above timeoutMs, and while it is
\* not settled with elapsed time above timeoutMs its timer is still active,
\* so that such a cycle runs when the timer fires.
C19_TimeoutBoundsSubflow ==
  \A i \in Callers :
    /\ inv[i].lateCycle => inv[i].subflow # "Polling"
    /\ (inv[i].subflow = "Polling" /\ now - inv[i].startTime > inv[i].timeoutMs) =>
         inv[i].timer = "active"

\* C20: the timeout is looked at only at the ticks, every PollIntervalMs,
\* and first in the cycle: with timeoutMs below the poll interval a sub-flow
\* whose popup opened makes no getUser call at all and can only end with
\* TIMEOUT, whatever the user did before the first tick.
C20_ShortTimeoutOnlyTimesOut ==
  \A i \in Callers :
    (inv[i].timeoutMs < PollIntervalMs
       /\ inv[i].subflow \notin {"none", "POPUP_BLOCKED", "RawError"}) =>
      /\ inv[i].subflow \in {"Polling", "TIMEOUT"}
      /\ ~inv[i].sfProbed
      /\ inv[i].pollPending = 0
      /\ inv[i].finalPending = 0
      /\ inv[i].outcome \in {"pending", "TIMEOUT"}

\* The popup opened and the first tick ended the sub-flow with TIMEOUT
\* without a getUser call.
C20_Witness ==
  \E i \in Callers :
    /\ inv[i].timeoutMs < PollIntervalMs
    /\ inv[i].openResult = "open"
    /\ inv[i].subflow = "TIMEOUT"
    /\ inv[i].outcome = "TIMEOUT"
    /\ inv[i].termCycles = 1
    /\ ~inv[i].sfProbed

====
